---------------------------- MODULE Spec2Model ----------------------------
(***************************************************************************)
(* Model of the webhook endpoint of server/src/routes/event_handler.rs:    *)
(* router construction (authenticate_app, ConfigState), the GitHubEvent    *)
(* extractor that runs before the handler (signature verification and      *)
(* body parsing), and handle_github_event with its two suspension points   *)
(* (for_installation and handle_event).                                    *)
(*                                                                         *)
(* The modules `extractors` and `authentication` are declared at lines     *)
(* 16-17 of event_handler.rs; the extractor is modelled from sections 4.1  *)
(* and 4.4 of the specification, the authenticators are generic            *)
(* parameters whose results are chosen nondeterministically.               *)
(***************************************************************************)
EXTENDS Integers, Sequences, FiniteSets, TLC

(***************************************************************************)
(* Bounds of the model.                                                    *)
(***************************************************************************)
\* number of requests sent to the router
MaxReqs == 2
\* installation ids carried by request bodies are 1..MaxInstallationId
MaxInstallationId == 1
\* length in bytes of a digest (32 for HMAC-SHA256, scaled down)
DigestLen == 2

Reqs == 1..MaxReqs
InstallationIds == 1..MaxInstallationId
\* Option values: None, or Some(x) holding x
None == <<>>
Some(x) == <<x>>
Unwrap(o) == o[1]

(***************************************************************************)
(* Bytes, hex encoding and decoding.                                       *)
(***************************************************************************)
HexLower == <<"0","1","2","3","4","5","6","7","8","9","a","b","c","d","e","f">>
HexUpper == <<"0","1","2","3","4","5","6","7","8","9","A","B","C","D","E","F">>

RECURSIVE SumSeq(_)
SumSeq(s) == IF s = <<>> THEN 0 ELSE Head(s) + SumSeq(Tail(s))

RECURSIVE Flatten(_)
Flatten(ss) == IF ss = <<>> THEN <<>> ELSE Head(ss) \o Flatten(Tail(ss))

\* hex::encode: two lowercase hex digits per byte, high nibble first
HexEncode(bytes) ==
    Flatten([i \in 1..Len(bytes) |->
                <<HexLower[(bytes[i] \div 16) + 1], HexLower[(bytes[i] % 16) + 1]>>])

\* value of one hex digit, either letter case; -1 for any other character
HexVal(c) ==
    IF \E i \in 1..16 : HexLower[i] = c
    THEN (CHOOSE i \in 1..16 : HexLower[i] = c) - 1
    ELSE IF \E i \in 1..16 : HexUpper[i] = c
    THEN (CHOOSE i \in 1..16 : HexUpper[i] = c) - 1
    ELSE -1

\* hex decoding: None on an odd length or a character that is no hex digit
HexDecode(chars) ==
    IF Len(chars) % 2 # 0 \/ \E i \in 1..Len(chars) : HexVal(chars[i]) = -1
    THEN None
    ELSE Some([i \in 1..(Len(chars) \div 2) |->
                  16 * HexVal(chars[2 * i - 1]) + HexVal(chars[2 * i])])

\* upper-case form of a string of hex digits
ToUpper(chars) ==
    [i \in 1..Len(chars) |->
        IF HexVal(chars[i]) = -1 THEN chars[i] ELSE HexUpper[HexVal(chars[i]) + 1]]

(***************************************************************************)
(* HmacSha256::hmac stands for a keyed digest of DigestLen bytes: a        *)
(* deterministic function of the key and of every byte of the data.        *)
(***************************************************************************)
HmacSha256(secret, data) ==
    [i \in 1..DigestLen |->
        (7 * SumSeq(secret) + 13 * Len(secret) + 31 * i + 5 * Len(data)
           + SumSeq([j \in 1..Len(data) |-> (i + 2 * j) * (data[j] + 1)])) % 256]

\* test::calc_hmac_for_body: hex::encode(HmacSha256::hmac(secret, data))
calc_hmac_for_body(secret, data) == HexEncode(HmacSha256(secret, data))

SigPrefix == <<"s","h","a","2","5","6","=">>
Sha1Prefix == <<"s","h","a","1","=">>

\* a header built with the prefix of the older x-hub-signature header
HeaderForMutSha1(secret, body) == Sha1Prefix \o calc_hmac_for_body(secret, body)

\* the header the tests send: format!("sha256={body_hmac}")
HeaderFor(secret, body) == SigPrefix \o calc_hmac_for_body(secret, body)


(***************************************************************************)
(* Request inputs.  A body is the raw byte string of the request; the      *)
(* JSON documents of the tests are abstracted to tagged byte strings:      *)
(*   <<0>>      {"hello":"world"}                  (no installation)       *)
(*   <<1, id>>  {"installation":{"id":id,"node_id":..},..}   (minimal)     *)
(*   <<2, id>>  the same with a full installation object                   *)
(* and every other byte string is not a parseable event.                   *)
(***************************************************************************)
Secrets == {<<0, 0>>, <<1, 2>>}

Bodies ==
    {<<>>, <<0>>}
      \cup {<<t, i>> : t \in {1, 2}, i \in InstallationIds}

\* the values of the x-hub-signature-256 header sent with body b: absent,
\* signed with any secret (lower- or upper-case hex), without the prefix,
\* one byte short, with a character that is no hex digit, and the
\* signature of another body
HeaderChoices(b) ==
    {None}
      \cup {Some(HeaderFor(s, b)) : s \in Secrets}
      \cup {Some(SigPrefix \o ToUpper(calc_hmac_for_body(s, b))) : s \in Secrets}
      \cup {Some(calc_hmac_for_body(s, b)) : s \in {<<0, 0>>}}
      \cup {Some(SubSeq(HeaderFor(s, b), 1, Len(HeaderFor(s, b)) - 2)) : s \in {<<0, 0>>}}
      \cup {Some(SubSeq(HeaderFor(s, b), 1, Len(HeaderFor(s, b)) - 1) \o <<"z">>) :
                s \in {<<0, 0>>}}
      \cup {Some(HeaderFor(s, <<0>>)) : s \in {<<0, 0>>}}

(***************************************************************************)
(* SignatureVerifier (section 4.1 of the specification):                   *)
(*   verify(secret, raw_body, provided_signature_header)                   *)
(* The result names the outcome and the number of HMAC computations made.  *)
(***************************************************************************)
HasSigPrefix(h) ==
    Len(h) >= Len(SigPrefix) /\ SubSeq(h, 1, Len(SigPrefix)) = SigPrefix

SigHex(h) == SubSeq(h, Len(SigPrefix) + 1, Len(h))

verify(secret, raw_body, header) ==
    IF header = None
    THEN [kind |-> "Missing", hmacs |-> 0]
    ELSE IF ~HasSigPrefix(Unwrap(header))
    THEN [kind |-> "Malformed", hmacs |-> 0]
    ELSE LET sig == HexDecode(SigHex(Unwrap(header))) IN
         IF sig = None \/ Len(Unwrap(sig)) # DigestLen
         THEN [kind |-> "Malformed", hmacs |-> 0]
         ELSE IF HmacSha256(secret, raw_body) = Unwrap(sig)
         THEN [kind |-> "Ok", hmacs |-> 1]
         ELSE [kind |-> "Mismatch", hmacs |-> 1]

(***************************************************************************)
(* Parsing the body into the event envelope (section 4.4, step 2).  The    *)
(* installation of an event is None, Minimal or Full (lines 61-63).        *)
(***************************************************************************)
ParseError == None

ParseBody(b) ==
    IF b = <<0>>
    THEN Some([installation |-> None])
    ELSE IF Len(b) = 2 /\ b[1] \in {1, 2} /\ b[2] >= 1
    THEN Some([installation |->
                  Some([variant |-> IF b[1] = 1 THEN "Minimal" ELSE "Full",
                        id |-> b[2]])])
    ELSE ParseError

(***************************************************************************)
(* The GitHubEvent extractor: verify the signature of the raw body, then   *)
(* parse it.  `steps` lists what was executed, in order.                   *)
(***************************************************************************)
GitHubEvent(secret, header, body) ==
    LET v == verify(secret, body, header)
        hm == IF v.hmacs > 0 THEN <<"hmac">> ELSE <<>>
    IN  IF v.kind # "Ok"
        THEN [sig |-> v.kind, event |-> None, steps |-> <<"verify">> \o hm,
              rejection |-> Some([status |-> 400, msg |-> "invalid signature"])]
        ELSE IF ParseBody(body) = ParseError
        THEN [sig |-> v.kind, event |-> None, steps |-> <<"verify">> \o hm \o <<"parse">>,
              rejection |-> Some([status |-> 400, msg |-> "malformed payload"])]
        ELSE [sig |-> v.kind, event |-> ParseBody(body),
              steps |-> <<"verify">> \o hm \o <<"parse">>,
              rejection |-> None]

\* an extractor that deserializes the body without checking its signature
HandlerArgsMutUnverified(secret, header, body) ==
    IF ParseBody(body) = ParseError
    THEN [sig |-> "-", event |-> None, steps |-> <<"parse">>,
          rejection |-> Some([status |-> 400, msg |-> "malformed payload"])]
    ELSE [sig |-> "-", event |-> ParseBody(body), steps |-> <<"parse">>,
          rejection |-> None]

\* an extractor that checks the signature only when the header is present
HandlerArgsMutOptionalSignature(secret, header, body) ==
    IF header = None
    THEN HandlerArgsMutUnverified(secret, header, body)
    ELSE GitHubEvent(secret, header, body)

\* an extractor that puts an empty event in the place of a body it cannot
\* parse
HandlerArgsMutLenientParse(secret, header, body) ==
    LET x == GitHubEvent(secret, header, body) IN
    IF x.sig = "Ok" /\ x.event = None
    THEN [x EXCEPT !.event = Some([installation |-> None]), !.rejection = None]
    ELSE x

\* the arguments of handle_github_event: the event comes from GitHubEvent,
\* whose rejection answers the request before the handler body runs
HandlerArgs(secret, header, body) == GitHubEvent(secret, header, body)


(***************************************************************************)
(* State.                                                                  *)
(*   app_config  the GitHubAppConfiguration given to router: None, or      *)
(*               Some of [webhook_secret]                                  *)
(*   router      "unbuilt", "serving" (the route exists) or "failed"       *)
(*   config      the ConfigState of the route: None, or Some of            *)
(*               [webhook_secret, client]                                  *)
(*   authApp     the results of the authenticate_app calls, in order       *)
(*   req         per request: its position, inputs, and what was done      *)
(***************************************************************************)
VARIABLES app_config, router, config, authApp, req

vars == <<app_config, router, config, authApp, req>>

\* the client authenticate_app returns on success
AppClient == "AppClient"

NewRequest ==
    [pc |-> "idle", header |-> None, body |-> <<>>, sig |-> "-", event |-> None,
     steps |-> <<>>, forInst |-> None, client |-> None, handled |-> None,
     instRes |-> "-", handleRes |-> "-", status |-> 0, msg |-> "", log |-> <<>>]

Init ==
    /\ app_config = None
    /\ router = "unbuilt"
    /\ config = None
    /\ authApp = <<>>
    /\ req = [r \in Reqs |-> NewRequest]

(***************************************************************************)
(* router (lines 19-37): authenticate_app, `?`, ConfigState, the route.    *)
(***************************************************************************)
\* a router that swallows the error of authenticate_app and serves with a
\* client that was never authenticated
RouterResultMutIgnoreError(res, secret) ==
    [router |-> "serving",
     config |-> Some([webhook_secret |-> secret,
                      client |-> IF res = "Ok" THEN AppClient ELSE "Unauthenticated"])]

\* a router that keeps a fixed key instead of config.webhook_secret
RouterResultMutDefaultSecret(res, secret) ==
    IF res = "Err"
    THEN [router |-> "failed", config |-> None]
    ELSE [router |-> "serving",
          config |-> Some([webhook_secret |-> <<0, 0>>, client |-> AppClient])]

\* lines 26-36: `?` ends router on Err; on Ok the route gets its ConfigState
RouterResult(res, secret) ==
    IF res = "Err"
    THEN [router |-> "failed", config |-> None]
    ELSE [router |-> "serving",
          config |-> Some([webhook_secret |-> secret, client |-> AppClient])]

Router(res, secret) ==
    /\ router = "unbuilt"
    /\ app_config' = Some([webhook_secret |-> secret])
    /\ authApp' = Append(authApp, res)
    /\ router' = RouterResult(res, secret).router
    /\ config' = RouterResult(res, secret).config
    /\ UNCHANGED req

(***************************************************************************)
(* A request reaches the route: the extractors run (FromRef, lines 45-55,  *)
(* and GitHubEvent); a rejection of the extractor is the response.         *)
(***************************************************************************)
Respond(q, status, msg) == [q EXCEPT !.pc = "done", !.status = status, !.msg = msg]

Extracted(q, header, body, x) ==
    LET q1 == [q EXCEPT !.header = header, !.body = body, !.sig = x.sig,
                        !.event = x.event, !.steps = x.steps]
    IN  IF x.rejection # None
        THEN Respond(q1, Unwrap(x.rejection).status, Unwrap(x.rejection).msg)
        ELSE [q1 EXCEPT !.pc = "extracted"]

Extract(r) ==
    /\ router = "serving"
    /\ req[r].pc = "idle"
    /\ r > 1 => req[r - 1].pc # "idle"
    /\ \E body \in Bodies : \E header \in HeaderChoices(body) :
          req' = [req EXCEPT ![r] =
                    Extracted(@, header, body,
                              HandlerArgs(Unwrap(config).webhook_secret, header, body))]
    /\ UNCHANGED <<app_config, router, config, authApp>>

(***************************************************************************)
(* handle_github_event (lines 57-81), cut at its two awaits.               *)
(***************************************************************************)
\* a variant that falls back to id 0 when the event has no installation
InstallationIdOfMutDefault(event) ==
    IF event.installation = None THEN Some(0) ELSE Some(Unwrap(event.installation).id)

\* a variant without the arm for the Minimal installation
InstallationIdOfMutNoMinimal(event) ==
    IF event.installation = None \/ Unwrap(event.installation).variant = "Minimal"
    THEN None
    ELSE Some(Unwrap(event.installation).id)

\* lines 61-65: the id of the installation, Full or Minimal
InstallationIdOf(event) ==
    IF event.installation = None THEN None ELSE Some(Unwrap(event.installation).id)

\* lines 58 and 61-66: the handler body is entered, up to the call of
\* client.for_installation(id)
HandlerStart(q, appClient) ==
    LET id == InstallationIdOf(Unwrap(q.event)) IN
    IF id = None
    THEN Respond([q EXCEPT !.steps = @ \o <<"handler">>],
                 400, "missing installation id")
    ELSE [q EXCEPT !.pc = "await_installation",
                   !.forInst = Some([on |-> appClient, id |-> Unwrap(id)]),
                   !.steps = @ \o <<"handler", "for_installation">>]

\* number of times `step` was executed for request q
Count(q, step) == Cardinality({i \in 1..Len(q.steps) : q.steps[i] = step})

\* a variant that calls for_installation a second time after an error
ForInstallationReturnedMutRetry(q, res, r) ==
    IF res = "Err" /\ Count(q, "for_installation") < 2
    THEN [q EXCEPT !.steps = @ \o <<"for_installation">>]
    ELSE IF res = "Err"
    THEN Respond(q, 500, "unable to authenticate installation")
    ELSE LET c == [installation |-> Unwrap(q.forInst).id, app |-> Unwrap(q.forInst).on,
                   req |-> r]
         IN  [q EXCEPT !.pc = "await_handler",
                       !.client = Some(c),
                       !.handled = Some([client |-> Some(c), event |-> q.event]),
                       !.steps = @ \o <<"handle_event">>]

\* a variant that hands the event on whatever for_installation returned
ForInstallationReturnedMutIgnoreError(q, res, r) ==
    LET c == [installation |-> Unwrap(q.forInst).id, app |-> Unwrap(q.forInst).on,
              req |-> r]
    IN  [q EXCEPT !.pc = "await_handler",
                  !.client = IF res = "Ok" THEN Some(c) ELSE None,
                  !.handled = Some([client |-> IF res = "Ok" THEN Some(c) ELSE None,
                                    event |-> q.event]),
                  !.steps = @ \o <<"handle_event">>]

\* lines 66-76: for_installation returned; on Ok the event is handed on
ForInstallationReturned(q, res, r) ==
    IF res = "Err"
    THEN Respond(q, 500, "unable to authenticate installation")
    ELSE LET c == [installation |-> Unwrap(q.forInst).id, app |-> Unwrap(q.forInst).on,
                   req |-> r]
         IN  [q EXCEPT !.pc = "await_handler",
                       !.client = Some(c),
                       !.handled = Some([client |-> Some(c), event |-> q.event]),
                       !.steps = @ \o <<"handle_event">>]

\* a variant that logs the error of handle_event and falls through to 200
HandleEventReturnedMutNoReturn(q, res) ==
    IF res = "Err"
    THEN Respond([q EXCEPT !.log = Append(@, "failed to handle event")],
                 200, "hello world")
    ELSE Respond(q, 200, "hello world")

\* a variant that takes the Ok of handle_event for its error
HandleEventReturnedMutInverted(q, res) ==
    IF res = "Ok"
    THEN Respond([q EXCEPT !.log = Append(@, "failed to handle event")],
                 500, "failed to handle event")
    ELSE Respond(q, 200, "hello world")

\* lines 76-80: handle_event returned
HandleEventReturned(q, res) ==
    IF res = "Err"
    THEN Respond([q EXCEPT !.log = Append(@, "failed to handle event")],
                 500, "failed to handle event")
    ELSE Respond(q, 200, "hello world")

\* a handler that takes a process-wide lock and holds it across its awaits
EnterHandlerMutSerialized(r) ==
    /\ req[r].pc = "extracted"
    /\ \A r2 \in Reqs \ {r} : req[r2].pc \notin {"await_installation", "await_handler"}
    /\ req' = [req EXCEPT ![r] = HandlerStart(@, Unwrap(config).client)]
    /\ UNCHANGED <<app_config, router, config, authApp>>

\* a handler that reuses the installation client an earlier request
\* obtained for the same installation id
EnterHandlerMutCached(r) ==
    /\ req[r].pc = "extracted"
    /\ LET q == HandlerStart(req[r], Unwrap(config).client)
           hits == {r2 \in Reqs \ {r} :
                      /\ q.forInst # None /\ req[r2].client # None
                      /\ Unwrap(req[r2].client).installation = Unwrap(q.forInst).id}
       IN  IF hits = {}
           THEN req' = [req EXCEPT ![r] = q]
           ELSE LET c == req[CHOOSE r2 \in hits : TRUE].client IN
                req' = [req EXCEPT ![r] =
                          [req[r] EXCEPT !.pc = "await_handler",
                                         !.client = c,
                                         !.handled = Some([client |-> c,
                                                           event |-> req[r].event]),
                                         !.steps = @ \o <<"handler", "handle_event">>]]
    /\ UNCHANGED <<app_config, router, config, authApp>>

EnterHandler(r) ==
    /\ req[r].pc = "extracted"
    /\ req' = [req EXCEPT ![r] = HandlerStart(@, Unwrap(config).client)]
    /\ UNCHANGED <<app_config, router, config, authApp>>

\* a variant with a deadline on the exchange: the pending call is given up
\* and answered with 500 although for_installation has not returned
ForInstallationReturnsMutTimeout(r, res) ==
    /\ req[r].pc = "await_installation"
    /\ req' = [req EXCEPT ![r] =
                 IF res = "Err"
                 THEN Respond(@, 500, "unable to authenticate installation")
                 ELSE [ForInstallationReturned(@, res, r) EXCEPT !.instRes = res]]
    /\ UNCHANGED <<app_config, router, config, authApp>>

ForInstallationReturns(r, res) ==
    /\ req[r].pc = "await_installation"
    /\ req' = [req EXCEPT ![r] =
                 [ForInstallationReturned(@, res, r) EXCEPT !.instRes = res]]
    /\ UNCHANGED <<app_config, router, config, authApp>>

HandleEventReturns(r, res) ==
    /\ req[r].pc = "await_handler"
    /\ req' = [req EXCEPT ![r] =
                 [HandleEventReturned(@, res) EXCEPT !.handleRes = res]]
    /\ UNCHANGED <<app_config, router, config, authApp>>

Next ==
    \/ \E res \in {"Ok", "Err"}, secret \in Secrets : Router(res, secret)
    \/ \E r \in Reqs : Extract(r)
    \/ \E r \in Reqs : EnterHandler(r)
    \/ \E r \in Reqs, res \in {"Ok", "Err"} : ForInstallationReturns(r, res)
    \/ \E r \in Reqs, res \in {"Ok", "Err"} : HandleEventReturns(r, res)

Spec == Init /\ [][Next]_vars

\* a step of the handler future of some request: its start (lines 57-65) or
\* its resumption when an awaited call returns (lines 66-75 and 76-79)
HandlerStep ==
    \E r \in Reqs :
        \/ EnterHandler(r)
        \/ \E res \in {"Ok", "Err"} : ForInstallationReturns(r, res)
        \/ \E res \in {"Ok", "Err"} : HandleEventReturns(r, res)

\* The runtime polls a handler future that is ready, and the awaited calls
\* are assumed to return: while some handler can step, one eventually does.
\* Nothing forces the server to be built or a request to arrive.
Fairness == WF_vars(HandlerStep)

FairSpec == Spec /\ Fairness


(***************************************************************************)
(* Vocabulary of the properties.                                           *)
(***************************************************************************)
Arrived(q) == q.pc # "idle"
Done(q) == q.pc = "done"
Invoked(q, step) == \E i \in 1..Len(q.steps) : q.steps[i] = step
Before(q, a, b) ==
    \E i, j \in 1..Len(q.steps) : i < j /\ q.steps[i] = a /\ q.steps[j] = b

\* the secret of the GitHubAppConfiguration the router was built from
ConfiguredSecret == Unwrap(app_config).webhook_secret

\* h is "sha256=" followed by exactly 2 * DigestLen hex digits
WellFormedHeader(h) ==
    /\ Len(h) = Len(SigPrefix) + 2 * DigestLen
    /\ \A i \in 1..Len(SigPrefix) : h[i] = SigPrefix[i]
    /\ \A i \in (Len(SigPrefix) + 1)..Len(h) : HexVal(h[i]) # -1

ToLower(chars) ==
    [i \in 1..Len(chars) |->
        IF HexVal(chars[i]) = -1 THEN chars[i] ELSE HexLower[HexVal(chars[i]) + 1]]

\* h carries the digest of body b under secret s, in either letter case
CarriesDigest(h, s, b) ==
    WellFormedHeader(h) /\ ToLower(h) = HeaderFor(s, b)

HasInstallation(b) ==
    ParseBody(b) # ParseError /\ Unwrap(ParseBody(b)).installation # None

\* The predicates above, tabulated once over the inputs of the model.
HeaderValues == {Unwrap(h) : h \in UNION {HeaderChoices(b) : b \in Bodies} \ {None}}
SignedHeader == [s \in Secrets |-> [b \in Bodies |-> Some(HeaderFor(s, b))]]
DigestCarriers ==
    [s \in Secrets |-> [b \in Bodies |-> {h \in HeaderValues : CarriesDigest(h, s, b)}]]
WellFormedHeaders == {h \in HeaderValues : WellFormedHeader(h)}
InstallationBodies == {b \in Bodies : HasInstallation(b)}
UnparseableBodies == {b \in Bodies : ParseBody(b) = ParseError}

\* C1: the collaborator handle_event has been invoked for a request only
\* if the signature check of that request ran earlier and succeeded.
C1_ForwardedOnlyIfVerified ==
    \A r \in Reqs :
        (req[r].handled # None \/ Invoked(req[r], "handle_event"))
            => /\ req[r].sig = "Ok"
               /\ Before(req[r], "verify", "handle_event")

\* a request was forwarded to the collaborator after another one was
\* rejected for its signature
C1_Witness ==
    \E r1, r2 \in Reqs :
        /\ req[r1].handled # None /\ req[r1].sig = "Ok"
        /\ Done(req[r2]) /\ req[r2].sig \in {"Missing", "Malformed", "Mismatch"}

\* C2: for_installation is only called on the client a successful
\* authenticate_app returned while the router was built, and the
\* collaborator only receives the client that the for_installation call of
\* the same request returned.
C2_ClientsFromAuthentication ==
    \A r \in Reqs :
        /\ req[r].forInst # None
              => /\ authApp = <<"Ok">>
                 /\ Unwrap(req[r].forInst).on = AppClient
        /\ req[r].client # None
              => /\ req[r].forInst # None /\ req[r].instRes = "Ok"
                 /\ Unwrap(req[r].client).app = AppClient
        /\ req[r].handled # None
              => /\ Unwrap(req[r].handled).client # None
                 /\ Unwrap(req[r].handled).client = req[r].client
                 /\ Unwrap(Unwrap(req[r].handled).client).req = r
                 /\ Before(req[r], "for_installation", "handle_event")

C2_Witness ==
    \E r \in Reqs :
        /\ req[r].handled # None
        /\ Unwrap(Unwrap(req[r].handled).client).app = AppClient
        /\ authApp = <<"Ok">>

\* C3: a request with the correct sha256= signature of its body under the
\* configured secret, whose body has an installation with an id, for which
\* for_installation and the collaborator succeed, ends in 200 OK.
C3_HappyPathAccepted ==
    \A r \in Reqs :
        ( /\ Arrived(req[r])
          /\ req[r].header = SignedHeader[ConfiguredSecret][req[r].body]
          /\ req[r].body \in InstallationBodies )
            => /\ req[r].instRes = "Ok" /\ req[r].handleRes = "Ok"
                     => Done(req[r]) /\ req[r].status = 200
               /\ Done(req[r]) /\ req[r].status # 200
                     => req[r].instRes = "Err" \/ req[r].handleRes = "Err"

C3_Witness ==
    \E r \in Reqs :
        /\ Done(req[r])
        /\ req[r].header = SignedHeader[ConfiguredSecret][req[r].body]
        /\ req[r].body \in InstallationBodies
        /\ req[r].instRes = "Ok" /\ req[r].handleRes = "Ok"
        /\ req[r].status = 200

\* C4: a request without a signature header is rejected as Missing with
\* 400, whatever its body, without any HMAC computation, for_installation
\* call or collaborator call.
C4_MissingSignatureRejected ==
    \A r \in Reqs :
        Arrived(req[r]) /\ req[r].header = None
            => /\ Done(req[r]) /\ req[r].status = 400
               /\ req[r].sig = "Missing"
               /\ ~Invoked(req[r], "hmac")
               /\ ~Invoked(req[r], "for_installation") /\ req[r].forInst = None
               /\ ~Invoked(req[r], "handle_event") /\ req[r].handled = None

\* requests without the header, one with an installation in its body and
\* one with a body that has none
C4_Witness ==
    \E r1, r2 \in Reqs :
        /\ Done(req[r1]) /\ req[r1].header = None /\ req[r1].body \in InstallationBodies
        /\ Done(req[r2]) /\ req[r2].header = None /\ req[r2].body \notin InstallationBodies

\* C5: a request whose signature header is present but does not carry the
\* HMAC of the raw body under the configured secret is rejected with 400,
\* and neither for_installation nor the collaborator is invoked for it.
C5_WrongSignatureRejected ==
    \A r \in Reqs :
        ( /\ Arrived(req[r]) /\ req[r].header # None
          /\ Unwrap(req[r].header) \notin DigestCarriers[ConfiguredSecret][req[r].body] )
            => /\ Done(req[r]) /\ req[r].status = 400
               /\ req[r].sig \in {"Malformed", "Mismatch"}
               /\ ~Invoked(req[r], "for_installation") /\ req[r].forInst = None
               /\ ~Invoked(req[r], "handle_event") /\ req[r].handled = None

\* a well-formed signature made with another secret, over a body with an
\* installation
C5_Witness ==
    \E r \in Reqs, s \in Secrets :
        /\ Done(req[r])
        /\ s # ConfiguredSecret
        /\ req[r].header = SignedHeader[s][req[r].body]
        /\ req[r].body \in InstallationBodies
        /\ req[r].sig = "Mismatch" /\ req[r].status = 400

\* C6: a request with a verified signature whose parsed event has no
\* installation ends in 400 "missing installation id"; for_installation and
\* the collaborator are not invoked for it.
C6_MissingInstallationRejected ==
    \A r \in Reqs :
        ( /\ req[r].sig = "Ok" /\ req[r].event # None
          /\ Unwrap(req[r].event).installation = None )
            => /\ req[r].pc \in {"extracted", "done"}
               /\ Done(req[r])
                     => req[r].status = 400 /\ req[r].msg = "missing installation id"
               /\ ~Invoked(req[r], "for_installation") /\ req[r].forInst = None
               /\ req[r].instRes = "-"
               /\ ~Invoked(req[r], "handle_event") /\ req[r].handled = None
               /\ req[r].handleRes = "-"

C6_Witness ==
    \E r \in Reqs :
        /\ req[r].sig = "Ok" /\ req[r].event # None
        /\ Unwrap(req[r].event).installation = None
        /\ Done(req[r]) /\ req[r].msg = "missing installation id"

\* C7: when for_installation returns an error for a request that passed
\* signature verification and carries an installation id, the request ends
\* in 500 "unable to authenticate installation" and the collaborator is
\* never invoked for it.
C7_InstallationAuthFailure ==
    \A r \in Reqs :
        req[r].instRes = "Err"
            => /\ req[r].sig = "Ok" /\ req[r].forInst # None
               /\ Done(req[r]) /\ req[r].status = 500
               /\ req[r].msg = "unable to authenticate installation"
               /\ ~Invoked(req[r], "handle_event") /\ req[r].handled = None
               /\ req[r].handleRes = "-"

C7_Witness ==
    \E r \in Reqs :
        /\ req[r].instRes = "Err" /\ req[r].sig = "Ok"
        /\ req[r].event # None /\ Unwrap(req[r].event).installation # None
        /\ Done(req[r])

\* C8: when handle_event returns an error for a request whose signature was
\* verified and whose installation was authenticated, the request ends in
\* 500 "failed to handle event", never in 200.
C8_CollaboratorFailure ==
    \A r \in Reqs :
        req[r].handleRes = "Err"
            => /\ req[r].sig = "Ok" /\ req[r].instRes = "Ok" /\ req[r].client # None
               /\ Done(req[r]) /\ req[r].status = 500
               /\ req[r].msg = "failed to handle event"

C8_Witness ==
    \E r \in Reqs :
        /\ req[r].handleRes = "Err" /\ req[r].sig = "Ok" /\ req[r].instRes = "Ok"
        /\ Done(req[r]) /\ req[r].status = 500

\* C9: for every body B and secret S of the model, verify(S, B,
\* header_for(S, B)) succeeds: a request that carries header_for of its body
\* under the configured secret passes the signature check.
C9_VerifyAcceptsHeaderFor ==
    \A r \in Reqs :
        ( /\ Arrived(req[r])
          /\ req[r].header = SignedHeader[ConfiguredSecret][req[r].body] )
            => /\ req[r].sig = "Ok"
               /\ Invoked(req[r], "hmac")

\* the check accepted header_for of an unparseable body, under the second
\* secret
C9_Witness ==
    \E r \in Reqs :
        /\ Arrived(req[r])
        /\ ConfiguredSecret = <<1, 2>>
        /\ req[r].header = SignedHeader[ConfiguredSecret][req[r].body]
        /\ req[r].body \in UnparseableBodies
        /\ req[r].sig = "Ok"

\* C10 as stated: every present header value other than header_for(S, B)
\* makes verify fail with Mismatch.
C10_Original ==
    \A r \in Reqs :
        ( /\ Arrived(req[r]) /\ req[r].header # None
          /\ req[r].header # SignedHeader[ConfiguredSecret][req[r].body] )
            => req[r].sig = "Mismatch"

\* C10 amended: a present header value other than header_for(S, B) makes
\* verify fail with Malformed when it is not "sha256=" followed by the hex
\* digits of exactly one digest, and with Mismatch when it is well formed
\* and carries another digest; verify succeeds for it only when it differs
\* from header_for(S, B) in the letter case of its hex digits alone.
C10_OtherHeaderFails ==
    \A r \in Reqs :
        ( /\ Arrived(req[r]) /\ req[r].header # None
          /\ req[r].header # SignedHeader[ConfiguredSecret][req[r].body] )
            => LET h == Unwrap(req[r].header) IN
               /\ h \notin WellFormedHeaders => req[r].sig = "Malformed"
               /\ ( /\ h \in WellFormedHeaders
                    /\ h \notin DigestCarriers[ConfiguredSecret][req[r].body] )
                     => req[r].sig = "Mismatch"
               /\ req[r].sig = "Ok"
                     => h \in DigestCarriers[ConfiguredSecret][req[r].body]

\* one request failed as Malformed, another as Mismatch
C10_Witness ==
    \E r1, r2 \in Reqs :
        /\ req[r1].header # None /\ req[r1].sig = "Malformed"
        /\ req[r2].header # None /\ req[r2].sig = "Mismatch"

\* C11: a request whose signature is verified but whose body cannot be
\* parsed into an event ends in 400 "malformed payload"; for_installation
\* and the collaborator are not invoked for it.
C11_MalformedPayloadRejected ==
    \A r \in Reqs :
        ( /\ Arrived(req[r]) /\ req[r].sig = "Ok"
          /\ req[r].body \in UnparseableBodies )
            => /\ Done(req[r]) /\ req[r].status = 400
               /\ req[r].msg = "malformed payload"
               /\ req[r].event = None
               /\ Before(req[r], "verify", "parse")
               /\ ~Invoked(req[r], "handler")
               /\ ~Invoked(req[r], "for_installation") /\ req[r].forInst = None
               /\ ~Invoked(req[r], "handle_event") /\ req[r].handled = None

C11_Witness ==
    \E r \in Reqs :
        /\ Done(req[r]) /\ req[r].sig = "Ok"
        /\ req[r].body \in UnparseableBodies
        /\ req[r].msg = "malformed payload"

\* the failures of a request, by the status class they map to
ClientCaused(q) ==
    \/ q.sig \in {"Missing", "Malformed", "Mismatch"}
    \/ q.sig = "Ok" /\ q.event = None
    \/ /\ q.sig = "Ok" /\ q.event # None /\ Unwrap(q.event).installation = None
       /\ Invoked(q, "handler")
ServerCaused(q) == q.instRes = "Err" \/ q.handleRes = "Err"

\* C12: every request ends in one terminal outcome and no step is retried:
\* the signature check, for_installation and handle_event each run at most
\* once per request, any failure is terminal (a finished request never
\* changes again, and a failed step is the last one), and the outcome has
\* status 400 exactly for a bad or missing signature, a malformed body or a
\* missing id, 500 exactly for an authentication or collaborator failure,
\* and 200 exactly when the event was handled.
C12_OneTerminalOutcomeNoRetry ==
    /\ [](\A r \in Reqs :
            /\ Count(req[r], "verify") <= 1
            /\ Count(req[r], "for_installation") <= 1
            /\ Count(req[r], "handle_event") <= 1
            /\ (ClientCaused(req[r]) \/ ServerCaused(req[r])) => Done(req[r])
            /\ Done(req[r]) =>
                 /\ req[r].status \in {200, 400, 500}
                 /\ req[r].status = 400 <=> ClientCaused(req[r])
                 /\ req[r].status = 500 <=> ServerCaused(req[r])
                 /\ req[r].status = 200 <=> req[r].handleRes = "Ok"
            /\ ~Done(req[r]) => req[r].status = 0)
    /\ [][\A r \in Reqs : Done(req[r]) => req'[r] = req[r]]_vars

\* one request ended in 500 and another in 400
C12_Witness ==
    \E r1, r2 \in Reqs :
        /\ Done(req[r1]) /\ req[r1].status = 500 /\ req[r1].instRes = "Err"
        /\ Done(req[r2]) /\ req[r2].status = 400
        /\ req[r2].msg = "missing installation id"

\* C13: if authenticate_app fails while the router is built, router
\* returns an error and no route exists, so no request is ever handled;
\* requests are served only after authenticate_app succeeded.
C13_NoServiceWithoutAppAuth ==
    /\ authApp = <<"Err">>
          => /\ router = "failed" /\ config = None
             /\ \A r \in Reqs : req[r] = NewRequest
    /\ \A r \in Reqs :
          Arrived(req[r])
             => /\ authApp = <<"Ok">> /\ router = "serving"
                /\ config # None /\ Unwrap(config).client = AppClient
    /\ router = "failed" => authApp = <<"Err">>

\* authenticate_app failed and the router was not built
C13_Witness ==
    /\ authApp = <<"Err">>
    /\ router = "failed"
    /\ \A r \in Reqs : ~Arrived(req[r])

\* C14 as stated: whenever a request ends in 500 because for_installation
\* or the collaborator failed, a log event with the cause was emitted
\* before the response.
C14_FailuresLogged ==
    \A r \in Reqs :
        Done(req[r]) /\ req[r].status = 500
            /\ (req[r].instRes = "Err" \/ req[r].handleRes = "Err")
            => req[r].log # <<>>

\* the part of C14 the handler keeps: the collaborator's failure is logged
C14_CollaboratorFailureLogged ==
    \A r \in Reqs :
        Done(req[r]) /\ req[r].handleRes = "Err"
            => req[r].log = <<"failed to handle event">>

\* one request handled on its own, with the given results of its calls
\* ("-" when the call is not made or has not returned)
Alone(secret, header, body, instRes, handleRes) ==
    LET q0 == Extracted(NewRequest, header, body, HandlerArgs(secret, header, body))
        q1 == IF q0.pc = "extracted" THEN HandlerStart(q0, AppClient) ELSE q0
        q2 == IF q1.pc = "await_installation" /\ instRes # "-"
              THEN ForInstallationReturned(q1, instRes, 0)
              ELSE q1
        q3 == IF q2.pc = "await_handler" /\ handleRes # "-"
              THEN HandleEventReturned(q2, handleRes)
              ELSE q2
    IN  [pc |-> q3.pc, status |-> q3.status, msg |-> q3.msg, steps |-> q3.steps]

AloneTable ==
    [s \in Secrets |-> [b \in Bodies |-> [h \in HeaderChoices(b) |->
        [i \in {"-", "Ok", "Err"} |-> [c \in {"-", "Ok", "Err"} |->
            Alone(s, h, b, i, c)]]]]]

\* C15: under any interleaving of requests the shared configuration is
\* never changed after the router was built, a step of one request leaves
\* every other request's state alone, each request ends with the outcome
\* it would have had, had it been handled alone, and no request waits on
\* another: its next step can always be taken.
C15_RequestsIndependent ==
    /\ [](\A r \in Reqs :
            /\ Done(req[r]) =>
                 LET a == AloneTable[Unwrap(config).webhook_secret][req[r].body]
                                    [req[r].header][req[r].instRes][req[r].handleRes]
                 IN  /\ a.pc = "done" /\ req[r].status = a.status
                     /\ req[r].msg = a.msg /\ req[r].steps = a.steps
            /\ req[r].client # None => Unwrap(req[r].client).req = r
            /\ req[r].pc = "extracted" => ENABLED EnterHandler(r)
            /\ req[r].pc = "await_installation"
                  => \A res \in {"Ok", "Err"} : ENABLED ForInstallationReturns(r, res)
            /\ req[r].pc = "await_handler"
                  => \A res \in {"Ok", "Err"} : ENABLED HandleEventReturns(r, res))
    /\ [][/\ router # "unbuilt"
             => /\ router' = router /\ config' = config
                /\ app_config' = app_config /\ authApp' = authApp
          /\ \A r1, r2 \in Reqs :
                r1 # r2 /\ req'[r1] # req[r1] => req'[r2] = req[r2]]_vars

\* the second request was answered while the first one, which arrived
\* earlier, is still waiting for for_installation
C15_Witness ==
    /\ req[1].pc = "await_installation"
    /\ Done(req[2]) /\ req[2].status = 200

\* the event of q carries an installation
Identified(q) == q.event # None /\ Unwrap(q.event).installation # None
EventId(q) == Unwrap(Unwrap(q.event).installation).id
EventVariant(q) == Unwrap(Unwrap(q.event).installation).variant

\* C16: the id passed to for_installation is the id of the request's
\* installation field, for the minimal and for the full representation
\* alike, and the representation has no influence on the outcome: two
\* requests that differ in it alone end alike.
C16_InstallationIdPassedOn ==
    /\ \A r \in Reqs :
          /\ req[r].forInst # None
                => /\ Identified(req[r])
                   /\ Unwrap(req[r].forInst).id = EventId(req[r])
          /\ req[r].client # None
                => Unwrap(req[r].client).installation = EventId(req[r])
          /\ Identified(req[r]) /\ Invoked(req[r], "handler")
                => req[r].forInst # None
    /\ \A r1, r2 \in Reqs :
          ( /\ Done(req[r1]) /\ Done(req[r2])
            /\ Identified(req[r1]) /\ Identified(req[r2])
            /\ EventId(req[r1]) = EventId(req[r2])
            /\ req[r1].instRes = req[r2].instRes
            /\ req[r1].handleRes = req[r2].handleRes )
              => /\ req[r1].status = req[r2].status
                 /\ req[r1].msg = req[r2].msg
                 /\ req[r1].steps = req[r2].steps
                 /\ req[r1].forInst = req[r2].forInst

\* a minimal and a full installation with the same id, both accepted
C16_Witness ==
    \E r1, r2 \in Reqs :
        /\ Done(req[r1]) /\ Done(req[r2])
        /\ Identified(req[r1]) /\ Identified(req[r2])
        /\ EventVariant(req[r1]) = "Minimal" /\ EventVariant(req[r2]) = "Full"
        /\ EventId(req[r1]) = EventId(req[r2])
        /\ req[r1].forInst # None
        /\ Unwrap(req[r1].forInst).id = Unwrap(req[r2].forInst).id
        /\ req[r1].status = 200 /\ req[r2].status = 200

\* a step of the pipeline failed for q, or cannot succeed
Failed(q) ==
    \/ q.sig \in {"Missing", "Malformed", "Mismatch"}
    \/ Arrived(q) /\ q.sig = "Ok" /\ q.event = None
    \/ q.event # None /\ Unwrap(q.event).installation = None
    \/ q.instRes = "Err"
    \/ q.handleRes = "Err"

\* C17: a request is answered with 200 only if its signature was verified,
\* its body parsed, an installation id found, a client returned by
\* for_installation and success returned by handle_event, in this order;
\* once one of these has failed the request never gets 200.
C17_AcceptedOnlyAfterAllSteps ==
    /\ [](\A r \in Reqs :
            req[r].status = 200
               => /\ req[r].sig = "Ok"
                  /\ Identified(req[r])
                  /\ req[r].forInst # None /\ req[r].instRes = "Ok"
                  /\ req[r].client # None
                  /\ req[r].handled # None
                  /\ Unwrap(req[r].handled).client = req[r].client
                  /\ req[r].handleRes = "Ok"
                  /\ req[r].steps = <<"verify", "hmac", "parse", "handler",
                                      "for_installation", "handle_event">>)
    /\ [][\A r \in Reqs :
            Failed(req[r]) => Failed(req'[r]) /\ req'[r].status # 200]_vars

C17_Witness ==
    \E r1, r2 \in Reqs :
        /\ req[r1].status = 200
        /\ Done(req[r2]) /\ Failed(req[r2]) /\ req[r2].handleRes = "Err"

\* C18: the signature is checked before anything else: a request with a
\* missing or wrong signature whose body has no installation is rejected
\* by the signature step, never with "missing installation id", and the
\* handler body is not entered for it.
C18_SignatureRejectionFirst ==
    \A r \in Reqs :
        ( /\ Arrived(req[r])
          /\ req[r].body \notin InstallationBodies
          /\ \/ req[r].header = None
             \/ Unwrap(req[r].header) \notin DigestCarriers[ConfiguredSecret][req[r].body] )
            => /\ Done(req[r]) /\ req[r].status = 400
               /\ req[r].sig \in {"Missing", "Malformed", "Mismatch"}
               /\ req[r].msg # "missing installation id"
               /\ req[r].msg # "malformed payload"
               /\ req[r].steps \in {<<"verify">>, <<"verify", "hmac">>}
               /\ ~Invoked(req[r], "handler")

\* the requests of the two rejection tests: body {"hello":"world"}, once
\* without the header and once with a well-formed wrong signature
C18_Witness ==
    \E r1, r2 \in Reqs :
        /\ Done(req[r1]) /\ req[r1].body = <<0>> /\ req[r1].sig = "Missing"
        /\ Done(req[r2]) /\ req[r2].body = <<0>> /\ req[r2].sig = "Mismatch"

\* C19: installation clients are not cached or reused: authenticate_app is
\* called once per router construction, and every request that reaches the
\* handler with an installation id makes exactly one for_installation call
\* of its own and hands on the client of that call, also when an earlier
\* request already authenticated the same installation id.
C19_NoClientReuse ==
    /\ router # "unbuilt" => Len(authApp) = 1
    /\ router = "unbuilt" => authApp = <<>>
    /\ \A r \in Reqs :
          /\ Identified(req[r]) /\ Invoked(req[r], "handler")
                => /\ Count(req[r], "for_installation") = 1
                   /\ req[r].forInst # None
                   /\ Unwrap(req[r].forInst).id = EventId(req[r])
          /\ req[r].client # None
                => /\ req[r].instRes = "Ok"
                   /\ Unwrap(req[r].client).req = r
          /\ req[r].handled # None
                => /\ req[r].client # None
                   /\ Unwrap(req[r].handled).client = req[r].client
    /\ \A r1, r2 \in Reqs :
          r1 # r2 /\ req[r1].client # None /\ req[r2].client # None
             => req[r1].client # req[r2].client

\* the second request called for_installation for the installation id the
\* first request had already been given a client for
C19_Witness ==
    /\ Done(req[1]) /\ req[1].client # None
    /\ req[2].forInst # None
    /\ Unwrap(req[2].forInst).id = Unwrap(req[1].client).installation
    /\ Count(req[2], "for_installation") = 1
    /\ req[2].client # None /\ req[2].client # req[1].client

\* C20: if the runtime is fair and every for_installation and handle_event
\* call returns, every request the server accepted reaches a terminal
\* outcome; the handler has no timeout of its own: a request waiting for
\* one of the two calls moves on only by the return of that call, so one
\* whose call never returns never reaches a terminal outcome.  (An arrived
\* request stays arrived and a finished one finished, so "again and again
\* all arrived requests are finished" says that each one finishes.)
C20_TerminatesWhenCallsReturn ==
    /\ []<>(\A r \in Reqs :
               Arrived(req[r])
                  => Done(req[r]) /\ req[r].status \in {200, 400, 500})
    /\ [](\A r \in Reqs :
            Done(req[r])
               => /\ Invoked(req[r], "for_installation") => req[r].instRes # "-"
                  /\ Invoked(req[r], "handle_event") => req[r].handleRes # "-")
    /\ [][\A r \in Reqs :
            /\ ( req[r].pc = "await_installation" /\ req'[r] # req[r] )
                  => req[r].instRes = "-" /\ req'[r].instRes # "-"
            /\ ( req[r].pc = "await_handler" /\ req'[r] # req[r] )
                  => req[r].handleRes = "-" /\ req'[r].handleRes # "-"]_vars

\* one request finished after both calls returned while another still
\* waits for its handle_event call
C20_Witness ==
    \E r1, r2 \in Reqs :
        /\ Done(req[r1])
        /\ req[r1].instRes # "-" /\ req[r1].handleRes # "-"
        /\ req[r2].pc = "await_handler" /\ req[r2].handleRes = "-"

=============================================================================
